---- MODULE Spec2Model ----
(***************************************************************************)
(* Capital-call / LP-commitment accounting of the Valentine back office.   *)
(*                                                                         *)
(* The persistent store holds limited partners, capital calls and capital  *)
(* call responses.  The CLI commands `lp create`, `capital-call create`    *)
(* and `capital-call record-payment` are the operations that write them.   *)
(*                                                                         *)
(* Money is counted in units of USD 100,000, so the seeded commitments of  *)
(* $10M and $1M are 100 and 10.  The JavaScript numbers of the source are  *)
(* modelled by exact arithmetic: a percentage is the fraction n/d and      *)
(* every comparison is made by cross-multiplication.  Dates are points of  *)
(* an integer clock.  Fields that no operation reads back (description,    *)
(* notes, email, phone, type, createdAt, updatedAt, the call's date) are   *)
(* stored verbatim by the source and are left out.                         *)
(***************************************************************************)
EXTENDS Integers, Sequences, FiniteSets, TLC

VARIABLES lps, calls, responses, snapshot, now, procs, started, last,
          calculations, navLast, companies, investments, portfolioLast,
          updates, updatesLast, funds, fundsLast, tasks, tasksLast

moreVars == <<updates, updatesLast, funds, fundsLast, tasks, tasksLast>>

svcVars == <<calculations, navLast, companies, investments, portfolioLast,
             moreVars>>

vars == <<lps, calls, responses, snapshot, now, procs, started, last,
          calculations, navLast, companies, investments, portfolioLast,
          updates, updatesLast, funds, fundsLast, tasks, tasksLast>>

----------------------------------------------------------------------------
(* Bounds of the model.                                                    *)

MaxLPs == 3

MaxCalls == 2

MaxNow == 2

(* Option values the commands are tried with.                              *)

Undefined == -1

NoDate == -1

MaxResponses == 4

MaxCommands == 2

DueDates == {1}

PaymentDates == {1}

LPNames == {"Institutional Investor A", "John Smith"}

NewLPNames == {"John Smith"}

Commitments == {0, 10}

CallAmounts == {11}

PercentageOptions == {Undefined, 0, 10}

PaymentAmounts == {0, 1, 10}

Procs == {1, 2}

----------------------------------------------------------------------------
(* Users, funds and seed rows.                                             *)

NoUser == "none"

mockUsers ==
  [u \in {"super-admin", "fund-manager", "analyst", "readonly"} |->
     [id |-> u,
      role |-> CASE u = "super-admin" -> "SUPER_ADMIN"
                 [] u = "fund-manager" -> "FUND_MANAGER"
                 [] u = "analyst" -> "ANALYST"
                 [] OTHER -> "READ_ONLY"]]

Callers == {"super-admin", "fund-manager", "readonly", NoUser}

getAuthenticatedUser(caller) == caller # NoUser

seedFunds ==
  [f \in {"Seed Fund I", "Growth Fund I"} |->
     [id |-> IF f = "Seed Fund I" THEN "seed-fund-1" ELSE "growth-fund-1",
      name |-> f,
      ownerId |-> "cuid:manager@valentine.vc"]]

\* The mutable part of the seeded fund rows, by fund id.
seedFundRows ==
  [id \in {"seed-fund-1", "growth-fund-1"} |->
     [ownerId |-> "cuid:manager@valentine.vc",
      status |-> IF id = "seed-fund-1" THEN "Active" ELSE "Fundraising"]]

seedTasks ==
  << [id |-> 1, status |-> "TODO",
      assignedToId |-> "cuid:analyst@valentine.vc",
      createdById |-> "cuid:manager@valentine.vc"] >>

FundNames == DOMAIN seedFunds \cup {"No Such Fund"}

RECURSIVE gcd(_, _)
gcd(a, b) == IF b = 0 THEN a ELSE gcd(b, a % b)

Percentage(n, d) == [n |-> n \div gcd(n, d), d |-> d \div gcd(n, d)]

seedLPs ==
  << [name |-> "Institutional Investor A", fundId |-> "seed-fund-1", commitment |-> 100],
     [name |-> "John Smith", fundId |-> "seed-fund-1", commitment |-> 10] >>

seedCapitalCalls ==
  << [fundId |-> "seed-fund-1", amount |-> 55, percentage |-> Percentage(10, 1),
      dueDate |-> 0, status |-> "FULLY_PAID"] >>

seedResponses ==
  << [lpId |-> 1, capitalCallId |-> 1, amountPaid |-> 10, datePaid |-> 0, status |-> "PAID"],
     [lpId |-> 2, capitalCallId |-> 1, amountPaid |-> 1, datePaid |-> 0, status |-> "PAID"] >>

----------------------------------------------------------------------------
(* Queries of the persistence layer.                                       *)

RECURSIVE SumOver(_, _)
SumOver(S, f) ==
  IF S = {} THEN 0
  ELSE LET x == CHOOSE y \in S : TRUE
       IN f[x] + SumOver(S \ {x}, f)

findFund(name) == IF name \in DOMAIN seedFunds THEN {seedFunds[name]} ELSE {}

fundOf(fundId) == CHOOSE f \in DOMAIN seedFunds : seedFunds[f].id = fundId

limitedPartners(ls, fundId) == {i \in 1..Len(ls) : ls[i].fundId = fundId}

findLP(ls, name, fundId) ==
  {i \in 1..Len(ls) : ls[i].name = name /\ ls[i].fundId = fundId}

findResponse_anyLP(rs, lpId, capitalCallId) ==
  {r \in 1..Len(rs) : rs[r].capitalCallId = capitalCallId}

findResponse(rs, lpId, capitalCallId) ==
  {r \in 1..Len(rs) : rs[r].lpId = lpId /\ rs[r].capitalCallId = capitalCallId}

responsesOf(rs, capitalCallId) ==
  {r \in 1..Len(rs) : rs[r].capitalCallId = capitalCallId}

hasPermission(caller, fundName) ==
  \/ mockUsers[caller].role = "SUPER_ADMIN"
  \/ seedFunds[fundName].ownerId = mockUsers[caller].id

----------------------------------------------------------------------------
(* The arithmetic of the capital-call commands.                            *)

totalCommitments(ls, L) == SumOver(L, [i \in L |-> ls[i].commitment])

derivePercentage_fraction(amount, total) == Percentage(amount, total)

derivePercentage(amount, total) == Percentage(amount * 100, total)

percentageMissing(p) == p = Undefined \/ p = 0

paidInFull_strict(amountPaid, commitment, percentage) ==
  amountPaid * 100 * percentage.d > commitment * percentage.n

paidInFull(amountPaid, commitment, percentage) ==
  amountPaid * 100 * percentage.d >= commitment * percentage.n

paymentStatus(amountPaid, commitment, percentage) ==
  IF paidInFull(amountPaid, commitment, percentage) THEN "PAID" ELSE "PARTIALLY_PAID"

totalPaid(rs, capitalCallId) ==
  LET R == responsesOf(rs, capitalCallId)
  IN SumOver(R, [r \in R |-> rs[r].amountPaid])

newStatus_strict(paid, totalExpected, today, dueDate) ==
  IF paid > totalExpected THEN "FULLY_PAID"
  ELSE IF paid > 0 THEN "PARTIALLY_PAID"
  ELSE IF today > dueDate THEN "OVERDUE"
  ELSE "PENDING"

newStatus(paid, totalExpected, today, dueDate) ==
  IF paid >= totalExpected THEN "FULLY_PAID"
  ELSE IF paid > 0 THEN "PARTIALLY_PAID"
  ELSE IF today > dueDate THEN "OVERDUE"
  ELSE "PENDING"

----------------------------------------------------------------------------
(* Rows written by the commands.                                           *)

limitedPartnerData(name, commitment, fundId) ==
  [name |-> name, fundId |-> fundId, commitment |-> commitment]

capitalCallData(amount, dueDate, percentage, fundId) ==
  [fundId |-> fundId, amount |-> amount, percentage |-> percentage,
   dueDate |-> dueDate, status |-> "PENDING"]

responseData(lpId, capitalCallId) ==
  [lpId |-> lpId, capitalCallId |-> capitalCallId, amountPaid |-> 0,
   datePaid |-> NoDate, status |-> "PENDING"]

RECURSIVE responseRows_twice(_, _)
responseRows_twice(L, capitalCallId) ==
  IF L = {} THEN << >>
  ELSE LET lp == CHOOSE i \in L : \A j \in L : i <= j
       IN <<responseData(lp, capitalCallId), responseData(lp, capitalCallId)>>
            \o responseRows_twice(L \ {lp}, capitalCallId)

RECURSIVE responseRows(_, _)
responseRows(L, capitalCallId) ==
  IF L = {} THEN << >>
  ELSE LET lp == CHOOSE i \in L : \A j \in L : i <= j
       IN <<responseData(lp, capitalCallId)>> \o responseRows(L \ {lp}, capitalCallId)

choosePercentage(option, amount, total) ==
  IF percentageMissing(option) THEN derivePercentage(amount, total)
  ELSE Percentage(option, 1)

updateResponse_accumulate(rs, r, amount, date, commitment, percentage) ==
  [rs EXCEPT ![r] = [@ EXCEPT !.amountPaid = @ + amount,
                              !.datePaid = date,
                              !.status = paymentStatus(amount, commitment, percentage)]]

updateResponse_max(rs, r, amount, date, commitment, percentage) ==
  [rs EXCEPT ![r] = [@ EXCEPT !.amountPaid = IF @ > amount THEN @ ELSE amount,
                              !.datePaid = date,
                              !.status = paymentStatus(amount, commitment, percentage)]]

updateResponse(rs, r, amount, date, commitment, percentage) ==
  [rs EXCEPT ![r] = [@ EXCEPT !.amountPaid = amount,
                              !.datePaid = date,
                              !.status = paymentStatus(amount, commitment, percentage)]]

computeCallStatus(cs, rs, capitalCallId, today) ==
  newStatus(totalPaid(rs, capitalCallId), cs[capitalCallId].amount,
            today, cs[capitalCallId].dueDate)

writeCallStatus_all(cs, capitalCallId, status) ==
  [c \in 1..Len(cs) |-> [cs[c] EXCEPT !.status = status]]

writeCallStatus(cs, capitalCallId, status) ==
  [cs EXCEPT ![capitalCallId].status = status]

updateCapitalCallStatus(cs, rs, capitalCallId, today) ==
  writeCallStatus(cs, capitalCallId, computeCallStatus(cs, rs, capitalCallId, today))

----------------------------------------------------------------------------
(* Early returns of the commands: "" when the command goes through.        *)

lpCreateError(caller, fundName) ==
  IF ~getAuthenticatedUser(caller) THEN "not-authenticated"
  ELSE IF findFund(fundName) = {} THEN "fund-not-found"
  ELSE IF ~hasPermission(caller, fundName) THEN "permission"
  ELSE ""

createError_unchecked(ls, caller, fundName, option) ==
  IF ~getAuthenticatedUser(caller) THEN "not-authenticated"
  ELSE IF findFund(fundName) = {} THEN "fund-not-found"
  ELSE IF ~hasPermission(caller, fundName) THEN "permission"
  ELSE ""

createError(ls, caller, fundName, option) ==
  IF ~getAuthenticatedUser(caller) THEN "not-authenticated"
  ELSE IF findFund(fundName) = {} THEN "fund-not-found"
  ELSE IF ~hasPermission(caller, fundName) THEN "permission"
  ELSE IF /\ percentageMissing(option)
          /\ ~(totalCommitments(ls, limitedPartners(ls, seedFunds[fundName].id)) > 0)
       THEN "no-commitments"
  ELSE ""

recordPaymentError(ls, cs, caller, capitalCallId, lpName) ==
  IF ~getAuthenticatedUser(caller) THEN "not-authenticated"
  ELSE IF capitalCallId \notin 1..Len(cs) THEN "call-not-found"
  ELSE IF ~hasPermission(caller, fundOf(cs[capitalCallId].fundId)) THEN "permission"
  ELSE IF findLP(ls, lpName, cs[capitalCallId].fundId) = {} THEN "lp-not-found"
  ELSE ""

----------------------------------------------------------------------------
(* State.                                                                  *)

idle == [pc |-> "idle", call |-> 0, lp |-> 0, resp |-> 0, amount |-> 0,
         date |-> NoDate, todo |-> {}, status |-> "", option |-> Undefined,
         percentage |-> Percentage(0, 1), fundId |-> ""]

Outcome(op, err, call, lp, resp, option) ==
  [op |-> op, ok |-> (err = ""), err |-> err,
   call |-> call, lp |-> lp, resp |-> resp, option |-> option,
   amount |-> Undefined]

Init ==
  /\ lps = seedLPs
  /\ calls = seedCapitalCalls
  /\ responses = seedResponses
  /\ snapshot = << {1, 2} >>
  /\ now = 1
  /\ procs = [p \in Procs |-> idle]
  /\ started = 0
  /\ last = Outcome("seed", "", 0, 0, 0, Undefined)
  /\ calculations = << >>
  /\ navLast = [op |-> "constructor"]
  /\ companies = << >>
  /\ investments = << >>
  /\ portfolioLast = [op |-> "constructor"]
  /\ updates = << >>
  /\ updatesLast = [op |-> "constructor"]
  /\ funds = seedFundRows
  /\ fundsLast = [op |-> "seed"]
  /\ tasks = seedTasks
  /\ tasksLast = [op |-> "seed"]

Quiescent == \A p \in Procs : procs[p].pc = "idle"

----------------------------------------------------------------------------
(* The commands, each run to completion.                                   *)

\* A clock step that also re-derives every stored call status.
Tick_recompute ==
  /\ now < MaxNow
  /\ now' = now + 1
  /\ calls' = [c \in 1..Len(calls) |->
                 [calls[c] EXCEPT !.status =
                    computeCallStatus(calls, responses, c, now + 1)]]
  /\ last' = Outcome("tick", "", 0, 0, 0, Undefined)
  /\ UNCHANGED <<svcVars, lps, responses, snapshot, procs, started>>

Tick ==
  /\ now < MaxNow
  /\ now' = now + 1
  /\ last' = Outcome("tick", "", 0, 0, 0, Undefined)
  /\ UNCHANGED <<svcVars, lps, calls, responses, snapshot, procs, started>>

Rejected(err, call, lp) ==
  /\ last' = Outcome("rejected", err, call, lp, 0, Undefined)
  /\ UNCHANGED <<svcVars, lps, calls, responses, snapshot, now, procs, started>>

LPCreateRejected(caller, fundName) ==
  /\ lpCreateError(caller, fundName) # ""
  /\ Rejected(lpCreateError(caller, fundName), 0, 0)

LPCreateAccepted(caller, fundName, name, commitment) ==
  /\ lpCreateError(caller, fundName) = ""
  /\ Len(lps) < MaxLPs
  /\ lps' = Append(lps, limitedPartnerData(name, commitment, seedFunds[fundName].id))
  /\ last' = Outcome("lp.create", "", 0, Len(lps) + 1, 0, Undefined)
  /\ UNCHANGED <<svcVars, calls, responses, snapshot, now, procs, started>>

LPCreate ==
  \/ \E caller \in Callers, fundName \in FundNames :
       LPCreateRejected(caller, fundName)
  \/ \E caller \in Callers, fundName \in FundNames, name \in NewLPNames,
        commitment \in Commitments :
       LPCreateAccepted(caller, fundName, name, commitment)

CapitalCallCreateRejected(caller, fundName, option) ==
  /\ createError(lps, caller, fundName, option) # ""
  /\ Rejected(createError(lps, caller, fundName, option), 0, 0)

CapitalCallCreateAccepted(caller, fundName, amount, due, option) ==
  /\ createError(lps, caller, fundName, option) = ""
  /\ LET fundId == seedFunds[fundName].id
         L == limitedPartners(lps, fundId)
         percentage == choosePercentage(option, amount, totalCommitments(lps, L))
         id == Len(calls) + 1
     IN /\ Len(calls) < MaxCalls
        /\ Len(responses) + Cardinality(L) <= MaxResponses
        /\ calls' = Append(calls, capitalCallData(amount, due, percentage, fundId))
        /\ responses' = responses \o responseRows(L, id)
        /\ snapshot' = Append(snapshot, L)
        /\ last' = Outcome("capital-call.create", "", id, 0, 0, option)
        /\ UNCHANGED <<svcVars, lps, now, procs, started>>

CapitalCallCreate ==
  \/ \E caller \in Callers, fundName \in FundNames, option \in PercentageOptions :
       CapitalCallCreateRejected(caller, fundName, option)
  \/ \E caller \in Callers, fundName \in FundNames, amount \in CallAmounts,
        due \in DueDates, option \in PercentageOptions :
       CapitalCallCreateAccepted(caller, fundName, amount, due, option)

RecordPaymentRejected(caller, capitalCallId, lpName) ==
  LET err == recordPaymentError(lps, calls, caller, capitalCallId, lpName) IN
  IF err # ""
  THEN Rejected(err, 0, 0)
  ELSE \E lp \in findLP(lps, lpName, calls[capitalCallId].fundId) :
         /\ findResponse(responses, lp, capitalCallId) = {}
         /\ Rejected("response-not-found", capitalCallId, lp)

RecordPaymentAccepted(caller, capitalCallId, lpName, amount, date) ==
  /\ recordPaymentError(lps, calls, caller, capitalCallId, lpName) = ""
  /\ \E lp \in findLP(lps, lpName, calls[capitalCallId].fundId) :
       \E r \in findResponse(responses, lp, capitalCallId) :
         LET rs == updateResponse(responses, r, amount, date,
                                  lps[lp].commitment, calls[capitalCallId].percentage)
         IN /\ responses' = rs
            /\ calls' = updateCapitalCallStatus(calls, rs, capitalCallId, now)
            /\ last' = [Outcome("capital-call.record-payment", "",
                                capitalCallId, lp, r, Undefined)
                          EXCEPT !.amount = amount]
            /\ UNCHANGED <<svcVars, lps, snapshot, now, procs, started>>

RecordPayment ==
  \/ \E caller \in Callers, capitalCallId \in 1..MaxCalls, lpName \in LPNames :
       RecordPaymentRejected(caller, capitalCallId, lpName)
  \/ \E caller \in Callers, capitalCallId \in 1..MaxCalls, lpName \in LPNames,
        amount \in PaymentAmounts, date \in PaymentDates :
       RecordPaymentAccepted(caller, capitalCallId, lpName, amount, date)

Next ==
  \/ Tick
  \/ LPCreate
  \/ CapitalCallCreate
  \/ RecordPayment

Spec == Init /\ [][Next]_vars

----------------------------------------------------------------------------
(* The same commands as processes: every awaited persistence call that     *)
(* writes is a step of its own, and steps of different commands interleave. *)
(* The reads a command makes before its first write are taken in one step:  *)
(* rows are only ever added, and the fields read (commitment, percentage,   *)
(* fundId) never change.  A command that returns early writes nothing and   *)
(* is left to Spec.  At most MaxCommands commands are started.  A process   *)
(* that has finished keeps the locals of its last command.                  *)

Set(p, rec) == procs' = [procs EXCEPT ![p] = rec]

CreateStart(p, caller, fundName, amount, due, option) ==
  /\ procs[p].pc = "idle"
  /\ started < MaxCommands
  /\ createError(lps, caller, fundName, option) = ""
  /\ LET fundId == seedFunds[fundName].id
         L == limitedPartners(lps, fundId)
     IN Set(p, [idle EXCEPT !.pc = "create.call",
                            !.fundId = fundId,
                            !.amount = amount,
                            !.date = due,
                            !.option = option,
                            !.todo = L,
                            !.percentage =
                               choosePercentage(option, amount, totalCommitments(lps, L))])
  /\ started' = started + 1
  /\ UNCHANGED <<svcVars, lps, calls, responses, snapshot, now, last>>

CreateCall(p) ==
  LET me == procs[p]
      id == Len(calls) + 1
  IN /\ me.pc = "create.call"
     /\ Len(calls) < MaxCalls
     /\ Len(responses) + Cardinality(me.todo) <= MaxResponses
     /\ calls' = Append(calls, capitalCallData(me.amount, me.date, me.percentage, me.fundId))
     /\ snapshot' = Append(snapshot, me.todo)
     /\ IF me.todo = {}
        THEN /\ Set(p, [me EXCEPT !.pc = "idle", !.call = id])
             /\ last' = Outcome("capital-call.create", "", id, 0, 0, me.option)
        ELSE /\ Set(p, [me EXCEPT !.pc = "create.responses", !.call = id])
             /\ UNCHANGED last
     /\ UNCHANGED <<svcVars, lps, responses, now, started>>

CreateResponse(p, lp) ==
  LET me == procs[p] IN
  /\ me.pc = "create.responses"
  /\ lp \in me.todo
  /\ responses' = Append(responses, responseData(lp, me.call))
  /\ IF me.todo = {lp}
     THEN /\ Set(p, [me EXCEPT !.pc = "idle", !.todo = {}])
          /\ last' = Outcome("capital-call.create", "", me.call, 0, 0, me.option)
     ELSE /\ Set(p, [me EXCEPT !.todo = @ \ {lp}])
          /\ UNCHANGED last
  /\ UNCHANGED <<svcVars, lps, calls, snapshot, now, started>>

PaymentStart(p, caller, capitalCallId, lpName, amount, date) ==
  /\ procs[p].pc = "idle"
  /\ started < MaxCommands
  /\ recordPaymentError(lps, calls, caller, capitalCallId, lpName) = ""
  /\ \E lp \in findLP(lps, lpName, calls[capitalCallId].fundId) :
       \E r \in findResponse(responses, lp, capitalCallId) :
         Set(p, [idle EXCEPT !.pc = "payment.update",
                             !.call = capitalCallId,
                             !.lp = lp,
                             !.resp = r,
                             !.amount = amount,
                             !.date = date])
  /\ started' = started + 1
  /\ UNCHANGED <<svcVars, lps, calls, responses, snapshot, now, last>>

PaymentUpdate(p) ==
  LET me == procs[p] IN
  /\ me.pc = "payment.update"
  /\ responses' = updateResponse(responses, me.resp, me.amount, me.date,
                                 lps[me.lp].commitment, calls[me.call].percentage)
  /\ Set(p, [me EXCEPT !.pc = "status.read"])
  /\ UNCHANGED <<svcVars, lps, calls, snapshot, now, started, last>>

StatusRead(p) ==
  LET me == procs[p] IN
  /\ me.pc = "status.read"
  /\ Set(p, [me EXCEPT !.pc = "status.write",
                       !.status = computeCallStatus(calls, responses, me.call, now)])
  /\ UNCHANGED <<svcVars, lps, calls, responses, snapshot, now, started, last>>

StatusWrite(p) ==
  LET me == procs[p] IN
  /\ me.pc = "status.write"
  /\ calls' = writeCallStatus(calls, me.call, me.status)
  /\ Set(p, [me EXCEPT !.pc = "idle"])
  /\ last' = Outcome("capital-call.record-payment", "", me.call, me.lp, me.resp, Undefined)
  /\ UNCHANGED <<svcVars, lps, responses, snapshot, now, started>>

LPCreateCommand ==
  /\ started < MaxCommands
  /\ started' = started + 1
  /\ \E caller \in Callers, fundName \in FundNames, name \in NewLPNames,
        commitment \in Commitments :
       /\ lpCreateError(caller, fundName) = ""
       /\ Len(lps) < MaxLPs
       /\ lps' = Append(lps, limitedPartnerData(name, commitment, seedFunds[fundName].id))
       /\ last' = Outcome("lp.create", "", 0, Len(lps) + 1, 0, Undefined)
  /\ UNCHANGED <<svcVars, calls, responses, snapshot, now, procs>>

Clock ==
  /\ now < MaxNow
  /\ now' = now + 1
  /\ last' = Outcome("tick", "", 0, 0, 0, Undefined)
  /\ UNCHANGED <<svcVars, lps, calls, responses, snapshot, procs, started>>

StepNext ==
  \/ Clock
  \/ LPCreateCommand
  \/ \E p \in Procs, caller \in Callers, fundName \in FundNames, amount \in CallAmounts,
        due \in DueDates, option \in PercentageOptions :
       CreateStart(p, caller, fundName, amount, due, option)
  \/ \E p \in Procs : CreateCall(p)
  \/ \E p \in Procs, lp \in 1..MaxLPs : CreateResponse(p, lp)
  \/ \E p \in Procs, caller \in Callers, capitalCallId \in 1..MaxCalls, lpName \in LPNames,
        amount \in PaymentAmounts, date \in PaymentDates :
       PaymentStart(p, caller, capitalCallId, lpName, amount, date)
  \/ \E p \in Procs : PaymentUpdate(p)
  \/ \E p \in Procs : StatusRead(p)
  \/ \E p \in Procs : StatusWrite(p)

ConcSpec == Init /\ [][StepNext]_vars

(* A command's process can die between two of its steps (the CLI process is *)
(* killed, or a persistence call throws and the catch block only logs):     *)
(* what it has written stays, what it had left to write is never written.   *)

Crash(p) ==
  /\ procs[p].pc # "idle"
  /\ Set(p, idle)
  /\ last' = Outcome("crash", "", procs[p].call, 0, 0, Undefined)
  /\ UNCHANGED <<svcVars, lps, calls, responses, snapshot, now, started>>

CrashNext ==
  \/ StepNext
  \/ \E p \in Procs : Crash(p)

CrashSpec == Init /\ [][CrashNext]_vars

----------------------------------------------------------------------------
(* Vocabulary of the properties: sums and comparisons written out on the   *)
(* stored rows, independently of the operators the commands use.           *)

RowsOfCall(c) == {r \in 1..Len(responses) : responses[r].capitalCallId = c}

RowsOfPair(l, c) ==
  {r \in 1..Len(responses) : responses[r].lpId = l /\ responses[r].capitalCallId = c}

RECURSIVE PaidOver(_)
PaidOver(R) ==
  IF R = {} THEN 0
  ELSE LET r == CHOOSE x \in R : TRUE
       IN responses[r].amountPaid + PaidOver(R \ {r})

RECURSIVE CommittedBy(_)
CommittedBy(L) ==
  IF L = {} THEN 0
  ELSE LET l == CHOOSE x \in L : TRUE
       IN lps[l].commitment + CommittedBy(L \ {l})

LPsOfFund(f) == {l \in 1..Len(lps) : lps[l].fundId = f}

\* amountPaid compared with commitment * percentage / 100, without division
MeetsExpected(r) ==
  LET c == calls[responses[r].capitalCallId] IN
  responses[r].amountPaid * 100 * c.percentage.d
    >= lps[responses[r].lpId].commitment * c.percentage.n

EqualsExpected(r) ==
  LET c == calls[responses[r].capitalCallId] IN
  responses[r].amountPaid * 100 * c.percentage.d
    = lps[responses[r].lpId].commitment * c.percentage.n

PaymentRecorded == last.op = "capital-call.record-payment" /\ last.ok

CallCreated == last.op = "capital-call.create" /\ last.ok

LPCreated == last.op = "lp.create" /\ last.ok

----------------------------------------------------------------------------
\* C1: right after a recordPayment on call c has completed, the stored status
\* of c is FULLY_PAID if the sum of amountPaid over c's responses is >= c.amount,
\* otherwise PARTIALLY_PAID if the sum is > 0, otherwise OVERDUE if the clock is
\* past c.dueDate, otherwise PENDING.
C1_StatusAfterPayment ==
  PaymentRecorded =>
    LET c == calls[last.call]
        paid == PaidOver(RowsOfCall(last.call))
    IN c.status = IF paid >= c.amount THEN "FULLY_PAID"
                  ELSE IF paid > 0 THEN "PARTIALLY_PAID"
                  ELSE IF now > c.dueDate THEN "OVERDUE"
                  ELSE "PENDING"

C1_Witness ==
  /\ PaymentRecorded
  /\ last.call > Len(seedCapitalCalls)
  /\ PaidOver(RowsOfCall(last.call)) = calls[last.call].amount
  /\ calls[last.call].status = "FULLY_PAID"

\* C2: a successful recordPayment leaves the LP's response PAID when amountPaid
\* >= commitment * percentage / 100 and PARTIALLY_PAID otherwise, never PENDING
\* or LATE.
C2_ResponseStatusAfterPayment ==
  PaymentRecorded =>
    /\ responses[last.resp].lpId = last.lp
    /\ responses[last.resp].capitalCallId = last.call
    /\ responses[last.resp].status =
         IF MeetsExpected(last.resp) THEN "PAID" ELSE "PARTIALLY_PAID"

C2_Witness ==
  /\ PaymentRecorded
  /\ EqualsExpected(last.resp)
  /\ responses[last.resp].amountPaid > 0
  /\ responses[last.resp].status = "PAID"

\* C3: a successful createCapitalCall with no percentage on a fund with total
\* commitment C > 0 stores a PENDING call with percentage = amount / C * 100 and
\* exactly one response per LP of the fund, each with amountPaid 0 and PENDING.
C3_CreateDerivesPercentage ==
  (CallCreated /\ last.option = Undefined) =>
    LET c == calls[last.call]
        F == LPsOfFund(c.fundId)
        C == CommittedBy(F)
    IN /\ C > 0
       /\ c.status = "PENDING"
       /\ c.percentage.d > 0
       /\ c.percentage.n * C = c.amount * 100 * c.percentage.d
       /\ Cardinality(RowsOfCall(last.call)) = Cardinality(F)
       /\ \A l \in F : Cardinality(RowsOfPair(l, last.call)) = 1
       /\ \A r \in RowsOfCall(last.call) :
            /\ responses[r].lpId \in F
            /\ responses[r].amountPaid = 0
            /\ responses[r].status = "PENDING"

C3_Witness ==
  /\ CallCreated
  /\ last.option = Undefined
  /\ Cardinality(LPsOfFund(calls[last.call].fundId)) = 2
  /\ Cardinality(RowsOfCall(last.call)) = 2

\* C4: every stored capital call has amount = percentage / 100 * (sum of the
\* commitments of the LPs the fund had when the call was created).
C4_AmountMatchesPercentage ==
  \A c \in 1..Len(calls) :
    calls[c].amount * 100 * calls[c].percentage.d
      = calls[c].percentage.n * CommittedBy(snapshot[c])

\* C5: for a call created by createCapitalCall, once every LP holding a response
\* for it has a recorded payment equal to its expected amount, every one of these
\* responses is PAID and the call is FULLY_PAID.
C5_AllPaidMeansFullyPaid ==
  \A c \in (Len(seedCapitalCalls) + 1)..Len(calls) :
    (/\ RowsOfCall(c) # {}
     /\ \A r \in RowsOfCall(c) : responses[r].datePaid # NoDate /\ EqualsExpected(r))
    => /\ \A r \in RowsOfCall(c) : responses[r].status = "PAID"
       /\ calls[c].status = "FULLY_PAID"

\* C8: response rows are a snapshot of the fund's LPs at call creation: a step
\* that creates an LP leaves every response row as it was, a recordPayment that
\* goes through updates a response row that the LP already had for the call, and
\* a recordPayment for an LP with no response row for the call is rejected with
\* the responses and the calls unchanged.
C8_SnapshotOfLPs ==
  [][/\ (lps' # lps) => (responses' = responses /\ calls' = calls)
     /\ (last'.op = "capital-call.record-payment" /\ last'.ok) =>
          /\ last'.resp \in RowsOfPair(last'.lp, last'.call)
          /\ Len(responses') = Len(responses)
     /\ (last'.err = "response-not-found") =>
          /\ RowsOfPair(last'.lp, last'.call) = {}
          /\ responses' = responses
          /\ calls' = calls]_vars

C8_Witness ==
  /\ last.err = "response-not-found"
  /\ last.call \in 1..Len(calls)
  /\ last.lp \in LPsOfFund(calls[last.call].fundId)
  /\ last.lp \notin snapshot[last.call]
  /\ RowsOfPair(last.lp, last.call) = {}

\* C9: createCapitalCall with no percentage on a fund with zero LPs or zero
\* total commitment is rejected: no call and no response row is created.
C9_NoCommitmentsRejected ==
  [][/\ (last'.op = "capital-call.create" /\ last'.ok /\ last'.option = Undefined) =>
          CommittedBy(LPsOfFund(calls'[last'.call].fundId)) > 0
     /\ (last'.err = "no-commitments") =>
          /\ calls' = calls
          /\ responses' = responses
          /\ \E f \in DOMAIN seedFunds : CommittedBy(LPsOfFund(seedFunds[f].id)) = 0]_vars

C9_Witness ==
  /\ last.err = "no-commitments"
  /\ LPsOfFund("growth-fund-1") # {}
  /\ CommittedBy(LPsOfFund("growth-fund-1")) = 0

FinishedPayment(p) == procs[p].pc = "idle" /\ procs[p].status # ""

C6_ConcurrentPaymentsStatus ==
  \A p, q \in Procs :
    (/\ p # q
     /\ started = 2
     /\ FinishedPayment(p) /\ FinishedPayment(q)
     /\ procs[p].call = procs[q].call
     /\ procs[p].lp # procs[q].lp)
    => LET c == calls[procs[p].call]
           paid == PaidOver(RowsOfCall(procs[p].call))
       IN /\ responses[procs[p].resp].amountPaid = procs[p].amount
          /\ responses[procs[q].resp].amountPaid = procs[q].amount
          /\ (paid >= c.amount) => c.status = "FULLY_PAID"
          /\ (0 < paid /\ paid < c.amount) => c.status = "PARTIALLY_PAID"
          /\ (paid = 0 /\ c.amount > 0) => c.status \in {"OVERDUE", "PENDING"}

\* C7: creating a capital call and its responses is one atomic unit: whenever
\* no command is in progress, also after a crash at any step of
\* createCapitalCall, every stored call has a response row for each of the N
\* LPs its fund had at creation.
C7_CallHasAllResponses ==
  Quiescent =>
    \A c \in 1..Len(calls) :
      \A l \in snapshot[c] : RowsOfPair(l, c) # {}

----------------------------------------------------------------------------
(* Capital account statements: the CLI command `lp statement` and the MCP  *)
(* endpoint `lp.statement`.  Both read the LP with its responses and each  *)
(* response's capital call, and write nothing.  The amounts are exact      *)
(* rationals n/d; the CLI's figures are the values handed to               *)
(* formatCurrency.                                                         *)

Num(x) == Percentage(x, 1)

RatAdd(a, b) == Percentage(a.n * b.d + b.n * a.d, a.d * b.d)

RatSub(a, b) == Percentage(a.n * b.d - b.n * a.d, a.d * b.d)

responsesOfLP(rs, lpId) == {r \in 1..Len(rs) : rs[r].lpId = lpId}

RECURSIVE reduceSum(_, _)
reduceSum(R, f) ==
  IF R = {} THEN Num(0)
  ELSE LET r == CHOOSE x \in R : TRUE
       IN RatAdd(f[r], reduceSum(R \ {r}, f))

lpStatement(ls, cs, rs, lpId) ==
  LET R == responsesOfLP(rs, lpId)
      commitment == Num(ls[lpId].commitment)
      totalCalled ==
        reduceSum(R, [r \in R |->
          LET c == cs[rs[r].capitalCallId]
          IN Percentage(c.amount * c.percentage.n, 100 * c.percentage.d)])
      paid == reduceSum(R, [r \in R |-> Num(rs[r].amountPaid)])
  IN [commitment |-> commitment,
      totalCalled |-> totalCalled,
      totalPaid |-> paid,
      outstandingBalance |-> RatSub(totalCalled, paid),
      remainingCommitment |-> RatSub(commitment, totalCalled)]

mcpStatement(ls, cs, rs, lpId) ==
  LET R == responsesOfLP(rs, lpId)
      commitment == Num(ls[lpId].commitment)
      totalCalled == reduceSum(R, [r \in R |-> Num(cs[rs[r].capitalCallId].amount)])
      paid == reduceSum(R, [r \in R |-> Num(rs[r].amountPaid)])
  IN [commitment |-> commitment,
      totalCalled |-> totalCalled,
      totalPaid |-> paid,
      outstandingBalance |-> RatSub(commitment, paid),
      remainingCommitment |-> RatSub(commitment, totalCalled)]

----------------------------------------------------------------------------
\* The expected amounts of two responses, commitment * percentage / 100,
\* compared without division.
SameExpected(r, q) ==
  LET c == calls[responses[r].capitalCallId]
      e == calls[responses[q].capitalCallId]
  IN lps[responses[r].lpId].commitment * c.percentage.n * e.percentage.d
       = lps[responses[q].lpId].commitment * e.percentage.n * c.percentage.d

\* C11: in every reachable state, any two responses with equal amountPaid and
\* equal expected amount (LP.commitment * call.percentage / 100) have the same
\* stored status, i.e. the status is a function of those two amounts alone.
C11_StatusDeterminedByAmounts ==
  \A r, q \in 1..Len(responses) :
    (responses[r].amountPaid = responses[q].amountPaid /\ SameExpected(r, q))
      => responses[r].status = responses[q].status

----------------------------------------------------------------------------
StatusChanged(c) == calls'[c].status # calls[c].status

StalePending(c) ==
  /\ calls[c].status = "PENDING"
  /\ now > calls[c].dueDate
  /\ PaidOver(RowsOfCall(c)) = 0

\* C12: the passage of time alone never changes a stored call status.  Every
\* step that changes the status of an existing call c is a successful
\* recordPayment on c, a clock step leaves every call as it was, and a newly
\* created call is stored PENDING; so OVERDUE is only ever written by a
\* recordPayment, and a call with nothing paid stays PENDING past its due date
\* until the next recordPayment on it.
C12_TimeAloneNeverChangesStatus ==
  [][ /\ \A c \in 1..Len(calls) :
           /\ c <= Len(calls')
           /\ StatusChanged(c) =>
                /\ last'.op = "capital-call.record-payment"
                /\ last'.ok
                /\ last'.call = c
           /\ (StalePending(c) /\ ~(last'.op = "capital-call.record-payment"
                                    /\ last'.ok /\ last'.call = c))
                => calls'[c].status = "PENDING"
      /\ \A c \in (Len(calls) + 1)..Len(calls') : calls'[c].status = "PENDING"
      /\ now' # now => calls' = calls ]_vars

\* A call left PENDING past its due date with nothing paid, next to a call
\* whose OVERDUE status a recordPayment has just written.
C12_Witness ==
  /\ \E c \in 1..Len(calls) : StalePending(c)
  /\ \E c \in 1..Len(calls) : calls[c].status = "OVERDUE"

----------------------------------------------------------------------------
StatementConsistent(st) ==
  /\ st.outstandingBalance = RatSub(st.totalCalled, st.totalPaid)
  /\ st.remainingCommitment = RatSub(st.commitment, st.totalCalled)

\* C13: for every LP and every state, the statement of the CLI command
\* `lp statement` and the statement of the MCP endpoint `lp.statement` each
\* report outstandingBalance = totalCalled - totalPaid and
\* remainingCommitment = commitment - totalCalled, over the totals of that
\* same statement.
C13_StatementBalances ==
  \A l \in 1..Len(lps) :
    /\ StatementConsistent(lpStatement(lps, calls, responses, l))
    /\ StatementConsistent(mcpStatement(lps, calls, responses, l))

----------------------------------------------------------------------------
(* NAVService: an in-memory Map from calculation id to NAVCalculation.     *)
(* `calculations` lists the Map's entries in insertion order, which is the *)
(* order Map.values() yields.  A date is a day number; the Invalid Date    *)
(* (and any value that is not a Date) is InvalidDate.  A result that may   *)
(* be undefined is a sequence of length 0 or 1.                            *)

MaxCalculations == 3

InvalidDate == -2

NavFunds == {"fund-1", "fund-2"}

NavDates == {1, 2, 3}

Currencies == {"USD", "invalid-currency"}

CompanyIds == {"company-1", "company-2"}

Holding(companyId, value) ==
  [companyId |-> companyId, value |-> value, method |-> "LAST_ROUND"]

NavHoldings ==
  { << >>,
    << Holding("company-1", 2), Holding("company-2", 1) >>,
    << Holding("company-1", -1) >> }

\* The parameter records calculateNAV is tried with.
NavParams ==
  {p \in [fundId : NavFunds, date : NavDates \cup {InvalidDate},
          holdings : NavHoldings, currency : Currencies] :
     /\ p.fundId = "fund-2" =>
          (p.holdings = << Holding("company-1", -1) >> /\ p.date = 2)
     /\ p.holdings = << >> => p.date \in {1, InvalidDate}
     /\ p.currency # "USD" => (p.holdings = << >> /\ p.fundId = "fund-1")}

RECURSIVE sumHoldings(_)
sumHoldings(hs) ==
  IF hs = << >> THEN 0 ELSE hs[1].value + sumHoldings(Tail(hs))

\* z.date() accepts a Date whose time value is a number
isDate(d) == d # InvalidDate

\* NAVCalculationSchema.parse: every field is of its type; the currency is
\* any string and a holding's value is any number
parses(params) == isDate(params.date)

randomUUID_fixed(cs) == 1

\* crypto.randomUUID(): an id no stored calculation has
randomUUID(cs) == Len(cs) + 1

\* Map.prototype.set: replace the value of an existing key in place, append
\* a new key
mapSet(cs, calc) ==
  IF \E i \in 1..Len(cs) : cs[i].id = calc.id
  THEN [i \in 1..Len(cs) |-> IF cs[i].id = calc.id THEN calc ELSE cs[i]]
  ELSE Append(cs, calc)

newCalculation(cs, params) ==
  [id |-> randomUUID(cs),
   fundId |-> params.fundId,
   date |-> params.date,
   totalValue |-> sumHoldings(params.holdings),
   currency |-> params.currency,
   holdings |-> params.holdings]

insertByDate_oldestFirst(sorted, calc) ==
  LET k == Cardinality({i \in 1..Len(sorted) : sorted[i].date <= calc.date})
  IN SubSeq(sorted, 1, k) \o << calc >> \o SubSeq(sorted, k + 1, Len(sorted))

\* one step of the stable sort with comparator b.date - a.date: calc goes
\* behind every element that is not older than it
insertByDate(sorted, calc) ==
  LET k == Cardinality({i \in 1..Len(sorted) : sorted[i].date >= calc.date})
  IN SubSeq(sorted, 1, k) \o << calc >> \o SubSeq(sorted, k + 1, Len(sorted))

RECURSIVE sortNewestFirst(_)
sortNewestFirst(cs) ==
  IF cs = << >> THEN << >>
  ELSE insertByDate(sortNewestFirst(SubSeq(cs, 1, Len(cs) - 1)), cs[Len(cs)])

listCalculations(cs, fundId) ==
  LET ofFund(calc) == calc.fundId = fundId
  IN sortNewestFirst(SelectSeq(cs, ofFund))

getLatestNAV(cs, fundId) ==
  LET found == listCalculations(cs, fundId)
  IN IF found = << >> THEN << >> ELSE << found[1] >>

getHistoricalNAV_exclusive(cs, fundId, startDate, endDate) ==
  LET inRange(calc) == calc.date > startDate /\ calc.date < endDate
  IN SelectSeq(listCalculations(cs, fundId), inRange)

getHistoricalNAV(cs, fundId, startDate, endDate) ==
  LET inRange(calc) == calc.date >= startDate /\ calc.date <= endDate
  IN SelectSeq(listCalculations(cs, fundId), inRange)

\* holdings.find(h => h.companyId === companyId)
findHolding(hs, companyId) ==
  LET match(h) == h.companyId = companyId
      found == SelectSeq(hs, match)
  IN IF found = << >> THEN << >> ELSE << found[1] >>

\* The source calls allCalculations.filter(calc => calc.date <= date) and
\* drops the array it returns, so the loop runs over every calculation.
getCompanyValuation(cs, companyId, date) ==
  LET allCalculations == sortNewestFirst(cs)
      hasCompany(calc) == findHolding(calc.holdings, companyId) # << >>
      found == SelectSeq(allCalculations, hasCompany)
  IN IF found = << >> THEN << >>
     ELSE LET calc == found[1]
              holding == findHolding(calc.holdings, companyId)[1]
          IN << [value |-> holding.value,
                 currency |-> calc.currency,
                 method |-> holding.method,
                 calculationId |-> calc.id,
                 date |-> calc.date] >>

----------------------------------------------------------------------------
(* The operations of NAVService.  navLast holds the last call's outcome.   *)

capitalVars == <<lps, calls, responses, snapshot, now, procs, started, last>>

portfolioVars == <<companies, investments, portfolioLast>>

NavQueryFunds == NavFunds \cup {"non-existent-fund"}

NavQueryCompanies == CompanyIds \cup {"non-existent-company"}

\* NAVCalculationSchema.parse throws and nothing is stored
CalculateNAVRejected(params) ==
  /\ ~parses(params)
  /\ navLast' = [op |-> "calculateNAV", ok |-> FALSE,
                 date |-> params.date, currency |-> params.currency]
  /\ UNCHANGED <<calculations, capitalVars, portfolioVars, moreVars>>

CalculateNAVAccepted(params) ==
  /\ parses(params)
  /\ Len(calculations) < MaxCalculations
  /\ calculations' = mapSet(calculations, newCalculation(calculations, params))
  /\ navLast' = [op |-> "calculateNAV", ok |-> TRUE,
                 date |-> params.date, currency |-> params.currency]
  /\ UNCHANGED <<capitalVars, portfolioVars, moreVars>>

CalculateNAV ==
  \/ \E params \in NavParams : CalculateNAVRejected(params)
  \/ \E params \in NavParams : CalculateNAVAccepted(params)

ListCalculations ==
  \E fundId \in NavQueryFunds :
    /\ navLast' = [op |-> "listCalculations",
                   result |-> listCalculations(calculations, fundId)]
    /\ UNCHANGED <<calculations, capitalVars, portfolioVars, moreVars>>

GetLatestNAV ==
  \E fundId \in NavQueryFunds :
    /\ navLast' = [op |-> "getLatestNAV",
                   result |-> getLatestNAV(calculations, fundId)]
    /\ UNCHANGED <<calculations, capitalVars, portfolioVars, moreVars>>

GetHistoricalNAV ==
  \E fundId \in NavFunds, startDate \in NavDates, endDate \in NavDates :
    /\ navLast' = [op |-> "getHistoricalNAV",
                   result |-> getHistoricalNAV(calculations, fundId,
                                               startDate, endDate)]
    /\ UNCHANGED <<calculations, capitalVars, portfolioVars, moreVars>>

GetCompanyValuation ==
  \E companyId \in NavQueryCompanies, date \in NavDates \cup {Undefined} :
    /\ navLast' = [op |-> "getCompanyValuation",
                   result |-> getCompanyValuation(calculations, companyId, date)]
    /\ UNCHANGED <<calculations, capitalVars, portfolioVars, moreVars>>

NavNext ==
  \/ CalculateNAV
  \/ ListCalculations
  \/ GetLatestNAV
  \/ GetHistoricalNAV
  \/ GetCompanyValuation

NavSpec == Init /\ [][NavNext]_vars

----------------------------------------------------------------------------
(* Vocabulary of the NAVService properties.                                *)

Stored(calc) == \E i \in 1..Len(calculations) : calculations[i] = calc

OfFund(fundId) == {i \in 1..Len(calculations) : calculations[i].fundId = fundId}

IdsOf(cs) == {cs[i].id : i \in 1..Len(cs)}

NewestFirst(cs) == \A i, j \in 1..Len(cs) : i < j => cs[i].date >= cs[j].date

CalculatedNAV == navLast.op = "calculateNAV" /\ navLast.ok

\* C14: every stored NAVCalculation has totalValue equal to the sum of its
\* holdings' values and totalValue >= 0, and a calculation with no holdings
\* is stored with totalValue = 0.
C14_TotalValueIsNonNegativeSum ==
  \A i \in 1..Len(calculations) :
    /\ calculations[i].totalValue = sumHoldings(calculations[i].holdings)
    /\ calculations[i].totalValue >= 0
    /\ calculations[i].holdings = << >> => calculations[i].totalValue = 0

\* C15: NAV history is append-only.  Every step keeps each stored calculation
\* where it was and as it was; a successful calculateNAV adds exactly one
\* record, also when a calculation of the same fund and date is already
\* stored; every other operation leaves the stored calculations unchanged.
C15_AppendOnlyHistory ==
  [][ /\ Len(calculations') >= Len(calculations)
      /\ \A i \in 1..Len(calculations) : calculations'[i] = calculations[i]
      /\ (navLast'.op = "calculateNAV" /\ navLast'.ok)
           => Len(calculations') = Len(calculations) + 1
      /\ ~(navLast'.op = "calculateNAV" /\ navLast'.ok)
           => calculations' = calculations ]_vars

\* Two calculations of one fund and one date are both stored, the second just
\* added.
C15_Witness ==
  /\ CalculatedNAV
  /\ \E i, j \in 1..Len(calculations) :
       /\ i < j
       /\ j = Len(calculations)
       /\ calculations[i].fundId = calculations[j].fundId
       /\ calculations[i].date = calculations[j].date
       /\ calculations[i].id # calculations[j].id

\* C16: whatever the insertion order, listCalculations(fundId) is exactly the
\* stored calculations of that fund, each once, in non-increasing date order,
\* and getLatestNAV(fundId) is a calculation of that fund with the maximum
\* date, or undefined when the fund has none.
C16_ListAndLatest ==
  \A fundId \in NavQueryFunds :
    LET listed == listCalculations(calculations, fundId)
        latest == getLatestNAV(calculations, fundId)
    IN /\ Len(listed) = Cardinality(OfFund(fundId))
       /\ IdsOf(listed) = {calculations[i].id : i \in OfFund(fundId)}
       /\ \A k \in 1..Len(listed) : Stored(listed[k])
       /\ NewestFirst(listed)
       /\ IF OfFund(fundId) = {} THEN latest = << >>
          ELSE /\ Len(latest) = 1
               /\ Stored(latest[1])
               /\ latest[1].fundId = fundId
               /\ \A i \in OfFund(fundId) : latest[1].date >= calculations[i].date

\* A listing of two or more calculations that were inserted oldest first,
\* with a calculation of another fund stored between them.
C16_Witness ==
  /\ navLast.op = "listCalculations"
  /\ Len(navLast.result) >= 2
  /\ \E i, j, k \in 1..Len(calculations) :
       /\ i < k /\ k < j
       /\ calculations[i].fundId = navLast.result[1].fundId
       /\ calculations[j].fundId = calculations[i].fundId
       /\ calculations[k].fundId # calculations[i].fundId
       /\ calculations[i].date < calculations[j].date
       /\ navLast.result[1] = calculations[j]

\* C17: getHistoricalNAV(fundId, start, end) is exactly the fund's calculations
\* whose date d has start <= d <= end, both bounds included, each once, newest
\* first, and holds no calculation of another fund.
C17_HistoricalRange ==
  \A fundId \in NavFunds, startDate \in NavDates, endDate \in NavDates :
    LET found == getHistoricalNAV(calculations, fundId, startDate, endDate)
        wanted == {i \in OfFund(fundId) :
                     /\ startDate <= calculations[i].date
                     /\ calculations[i].date <= endDate}
    IN /\ Len(found) = Cardinality(wanted)
       /\ IdsOf(found) = {calculations[i].id : i \in wanted}
       /\ \A k \in 1..Len(found) : Stored(found[k]) /\ found[k].fundId = fundId
       /\ NewestFirst(found)

\* Of three calculations of one fund on three different days, a range query
\* has returned just the middle one.
C17_Witness ==
  /\ navLast.op = "getHistoricalNAV"
  /\ Len(navLast.result) = 1
  /\ \E i, j, k \in 1..Len(calculations) :
       /\ calculations[i].fundId = calculations[j].fundId
       /\ calculations[j].fundId = calculations[k].fundId
       /\ calculations[i].date < calculations[j].date
       /\ calculations[j].date < calculations[k].date
       /\ navLast.result[1] = calculations[j]

Contains(i, companyId) ==
  \E h \in 1..Len(calculations[i].holdings) :
    calculations[i].holdings[h].companyId = companyId

\* C18: getCompanyValuation(companyId, asOfDate) returns the company's holding
\* from the newest calculation dated <= asOfDate that contains the company,
\* with that calculation's id, currency and date, and undefined when there is
\* no such calculation; a calculation dated after asOfDate never supplies it.
C18_ValuationAsOfDate ==
  \A companyId \in NavQueryCompanies, asOfDate \in NavDates :
    LET got == getCompanyValuation(calculations, companyId, asOfDate)
        eligible == {i \in 1..Len(calculations) :
                       /\ calculations[i].date <= asOfDate
                       /\ Contains(i, companyId)}
    IN IF eligible = {} THEN got = << >>
       ELSE /\ Len(got) = 1
            /\ got[1].date <= asOfDate
            /\ \E i \in eligible :
                 /\ \A j \in eligible : calculations[i].date >= calculations[j].date
                 /\ got[1].calculationId = calculations[i].id
                 /\ got[1].currency = calculations[i].currency
                 /\ got[1].date = calculations[i].date
                 /\ got[1].value =
                      findHolding(calculations[i].holdings, companyId)[1].value

RecognizedCurrencies == {"USD", "EUR", "GBP"}

\* C19: a calculateNAV whose date is not a real date, or whose currency is not
\* a recognized currency code, fails and leaves the stored calculations
\* unchanged.
C19_InvalidInputRejected ==
  [][ (/\ navLast'.op = "calculateNAV"
       /\ \/ ~isDate(navLast'.date)
          \/ navLast'.currency \notin RecognizedCurrencies)
        => (~navLast'.ok /\ calculations' = calculations) ]_vars

----------------------------------------------------------------------------
(* PortfolioService: in-memory Maps of companies and investments, listed   *)
(* in insertion order.  Of a company the name is kept, of an investment    *)
(* the company, the amount and the currency; the other fields are stored   *)
(* as given and read by none of the operations below.                      *)

MaxCompanies == 2

MaxInvestments == 2

CompanyNames == {"TechCo", "OtherCo"}

InvestmentAmounts == {1, 2}

InvestmentCurrencies == {"USD", "EUR"}

hasCompany(cos, companyId) == \E i \in 1..Len(cos) : cos[i].id = companyId

\* companyId ? investments.filter(i => i.companyId === companyId) : investments
listInvestments(invs, companyId) ==
  LET ofCompany(inv) == inv.companyId = companyId
  IN IF companyId = Undefined THEN invs ELSE SelectSeq(invs, ofCompany)

\* The byCurrency Map after the loop: one entry per currency, in the order
\* the currencies first occur, each holding the sum of its amounts.
RECURSIVE byCurrency(_)
byCurrency(invs) ==
  IF invs = << >> THEN << >>
  ELSE LET inv == invs[Len(invs)]
           groups == byCurrency(SubSeq(invs, 1, Len(invs) - 1))
       IN IF \E k \in 1..Len(groups) : groups[k].currency = inv.currency
          THEN [k \in 1..Len(groups) |->
                  IF groups[k].currency = inv.currency
                  THEN [groups[k] EXCEPT !.amount = @ + inv.amount]
                  ELSE groups[k]]
          ELSE Append(groups, [currency |-> inv.currency, amount |-> inv.amount])

getTotalInvested(invs, companyId) ==
  LET groups == byCurrency(listInvestments(invs, companyId))
  IN IF groups # << >>
     THEN [amount |-> groups[1].amount, currency |-> groups[1].currency]
     ELSE [amount |-> 0, currency |-> "USD"]

AddCompany ==
  \E name \in CompanyNames :
    /\ Len(companies) < MaxCompanies
    /\ companies' = Append(companies, [id |-> Len(companies) + 1, name |-> name])
    /\ portfolioLast' = [op |-> "addCompany", ok |-> TRUE]
    /\ UNCHANGED <<investments, calculations, navLast, capitalVars, moreVars>>

\* the company is not in the Map: addInvestment throws
AddInvestmentRejected(companyId) ==
  /\ ~hasCompany(companies, companyId)
  /\ portfolioLast' = [op |-> "addInvestment", ok |-> FALSE]
  /\ UNCHANGED <<companies, investments, calculations, navLast, capitalVars, moreVars>>

AddInvestmentAccepted(companyId, amount, currency) ==
  /\ hasCompany(companies, companyId)
  /\ Len(investments) < MaxInvestments
  /\ investments' = Append(investments,
                           [id |-> Len(investments) + 1, companyId |-> companyId,
                            amount |-> amount, currency |-> currency])
  /\ portfolioLast' = [op |-> "addInvestment", ok |-> TRUE]
  /\ UNCHANGED <<companies, calculations, navLast, capitalVars, moreVars>>

AddInvestment ==
  \/ \E companyId \in 1..MaxCompanies : AddInvestmentRejected(companyId)
  \/ \E companyId \in 1..MaxCompanies, amount \in InvestmentAmounts,
        currency \in InvestmentCurrencies :
       AddInvestmentAccepted(companyId, amount, currency)

GetTotalInvested ==
  \E companyId \in (1..MaxCompanies) \cup {Undefined} :
    /\ portfolioLast' = [op |-> "getTotalInvested",
                         result |-> getTotalInvested(investments, companyId)]
    /\ UNCHANGED <<companies, investments, calculations, navLast, capitalVars, moreVars>>

PortfolioNext ==
  \/ AddCompany
  \/ AddInvestment
  \/ GetTotalInvested

PortfolioSpec == Init /\ [][PortfolioNext]_vars

----------------------------------------------------------------------------
RECURSIVE InvestedIn(_, _)
InvestedIn(invs, currency) ==
  IF invs = << >> THEN 0
  ELSE (IF invs[1].currency = currency THEN invs[1].amount ELSE 0)
       + InvestedIn(Tail(invs), currency)

\* C20: getTotalInvested(companyId?) accounts for every matching investment:
\* for each currency present among the matching investments the result gives
\* the sum of the amounts in that currency, so no currency group is dropped,
\* and with no matching investment the total is 0.
C20_TotalCoversEveryCurrency ==
  \A companyId \in (1..MaxCompanies) \cup {Undefined} :
    LET matching == listInvestments(investments, companyId)
        total == getTotalInvested(investments, companyId)
    IN IF matching = << >> THEN total.amount = 0
       ELSE \A i \in 1..Len(matching) :
              /\ total.currency = matching[i].currency
              /\ total.amount = InvestedIn(matching, matching[i].currency)

----------------------------------------------------------------------------
(* UpdatesService: an in-memory Map from update id to Update, listed in    *)
(* insertion order.  A metric carries its own date.  An optional string    *)
(* parameter that is not passed is Absent; an optional date that is not    *)
(* passed is Undefined.                                                    *)

MaxUpdates == 2

MaxMetrics == 2

Absent == "<undefined>"

UpdateCompanies == {"company-1", "company-2"}

UpdateDates == {1, 2, 3}

MetricNames == {"MRR", "Burn"}

Metric(name, value, date) == [name |-> name, value |-> value, date |-> date]

\* The metric lists createUpdate is tried with, for an update dated `date`.
MetricLists(date) ==
  { << >>,
    << Metric("MRR", 2, date), Metric("Burn", 1, date) >>,
    << Metric("MRR", 3, 1) >> }

UpdateParams ==
  {u \in [companyId : UpdateCompanies, date : UpdateDates \cup {InvalidDate},
          type : {"MONTHLY"},
          metrics : UNION {MetricLists(d) : d \in UpdateDates}] :
     /\ u.date # InvalidDate => u.metrics \in MetricLists(u.date)
     /\ u.date = InvalidDate => u.metrics = << >>
     /\ u.metrics = << >> => u.date \in {1, InvalidDate}
     /\ u.metrics = << Metric("MRR", 3, 1) >> => u.date \in {2, 3}
     /\ u.companyId = "company-2" =>
          (u.date = 2 /\ u.metrics = << Metric("MRR", 3, 1) >>)}

\* The metrics addMetricsToUpdate is tried with (they come without a date).
AddedMetrics == { << [name |-> "MRR", value |-> 9] >> }

\* UpdateSchema.parse: the update's date and every metric's date are Dates
parsesUpdate(u) ==
  /\ isDate(u.date)
  /\ \A k \in 1..Len(u.metrics) : isDate(u.metrics[k].date)

\* JavaScript truthiness of an optional string: undefined and '' are falsy
truthy(str) == str # Absent /\ str # ""

listUpdates(us, companyId, type, startDate, endDate) ==
  LET ofCompany(u) == truthy(companyId) => u.companyId = companyId
      ofType(u) == truthy(type) => u.type = type
      fromStart(u) == startDate # Undefined => u.date >= startDate
      toEnd(u) == endDate # Undefined => u.date <= endDate
  IN sortNewestFirst(
       SelectSeq(SelectSeq(SelectSeq(SelectSeq(us, ofCompany), ofType),
                           fromStart), toEnd))

\* updates.flatMap(update => update.metrics)
RECURSIVE flatMetrics(_)
flatMetrics(us) ==
  IF us = << >> THEN << >> ELSE us[1].metrics \o flatMetrics(Tail(us))

\* The latestMetrics Map after the loops: the first metric seen of each name,
\* in the order the names are first seen.
RECURSIVE firstOfEachName(_)
firstOfEachName(ms) ==
  IF ms = << >> THEN << >>
  ELSE LET seen == firstOfEachName(SubSeq(ms, 1, Len(ms) - 1))
           m == ms[Len(ms)]
       IN IF \E k \in 1..Len(seen) : seen[k].name = m.name
          THEN seen ELSE Append(seen, m)

getLatestMetrics(us, companyId) ==
  firstOfEachName(flatMetrics(listUpdates(us, companyId, Absent,
                                          Undefined, Undefined)))

insertByDateAscending_newestFirst(sorted, m) ==
  LET k == Cardinality({i \in 1..Len(sorted) : sorted[i].date >= m.date})
  IN SubSeq(sorted, 1, k) \o << m >> \o SubSeq(sorted, k + 1, Len(sorted))

\* one step of the stable sort with comparator a.date - b.date: m goes
\* behind every element that is not newer than it
insertByDateAscending(sorted, m) ==
  LET k == Cardinality({i \in 1..Len(sorted) : sorted[i].date <= m.date})
  IN SubSeq(sorted, 1, k) \o << m >> \o SubSeq(sorted, k + 1, Len(sorted))

RECURSIVE sortOldestFirst(_)
sortOldestFirst(ms) ==
  IF ms = << >> THEN << >>
  ELSE insertByDateAscending(sortOldestFirst(SubSeq(ms, 1, Len(ms) - 1)),
                             ms[Len(ms)])

getMetricHistory(us, companyId, metricName, startDate, endDate) ==
  LET named(m) == m.name = metricName
  IN sortOldestFirst(
       SelectSeq(flatMetrics(listUpdates(us, companyId, Absent,
                                         startDate, endDate)), named))

hasUpdate(us, updateId) == \E i \in 1..Len(us) : us[i].id = updateId

\* metrics.map(metric => MetricSchema.parse({...metric, date: update.date}))
datedMetrics(metrics, date) ==
  [k \in 1..Len(metrics) |->
     Metric(metrics[k].name, metrics[k].value, date)]

addMetrics_prepend(update, metrics) ==
  [update EXCEPT !.metrics = datedMetrics(metrics, update.date) \o @]

\* {...update, metrics: [...update.metrics, ...newMetrics]}
addMetrics(update, metrics) ==
  [update EXCEPT !.metrics = @ \o datedMetrics(metrics, update.date)]

----------------------------------------------------------------------------
(* The operations of UpdatesService.  updatesLast records the last call.   *)

updatesFrame == <<capitalVars, calculations, navLast, portfolioVars,
                  funds, fundsLast, tasks, tasksLast>>

UpdateQueryCompanies == {"company-1", "company-2", "non-existent", ""}

UpdateQueryDates == {Undefined, 2}

\* The startDate, endDate pairs the operations are called with
UpdateQueryRanges == {<<Undefined, Undefined>>, <<2, Undefined>>, <<Undefined, 2>>}

CreateUpdateRejected(params) ==
  /\ ~parsesUpdate(params)
  /\ updatesLast' = [op |-> "createUpdate", ok |-> FALSE]
  /\ UNCHANGED <<updates, updatesFrame>>

CreateUpdateAccepted(params) ==
  /\ parsesUpdate(params)
  /\ Len(updates) < MaxUpdates
  /\ updates' = Append(updates,
                       [id |-> randomUUID(updates),
                        companyId |-> params.companyId,
                        date |-> params.date,
                        type |-> params.type,
                        metrics |-> params.metrics])
  /\ updatesLast' = [op |-> "createUpdate", ok |-> TRUE]
  /\ UNCHANGED updatesFrame

CreateUpdate ==
  \/ \E params \in UpdateParams : CreateUpdateRejected(params)
  \/ \E params \in UpdateParams : CreateUpdateAccepted(params)

ListUpdates ==
  \E companyId \in {Absent, "company-1"}, range \in UpdateQueryRanges :
    /\ updatesLast' = [op |-> "listUpdates", ok |-> TRUE,
                       result |-> listUpdates(updates, companyId, Absent,
                                              range[1], range[2])]
    /\ UNCHANGED <<updates, updatesFrame>>

GetLatestMetrics ==
  \E companyId \in UpdateQueryCompanies :
    /\ updatesLast' = [op |-> "getLatestMetrics", ok |-> TRUE,
                       companyId |-> companyId,
                       result |-> getLatestMetrics(updates, companyId)]
    /\ UNCHANGED <<updates, updatesFrame>>

GetMetricHistory ==
  \E companyId \in {"company-1", ""}, metricName \in {"MRR"},
     range \in UpdateQueryRanges :
    /\ updatesLast' = [op |-> "getMetricHistory", ok |-> TRUE,
                       companyId |-> companyId,
                       result |-> getMetricHistory(updates, companyId,
                                                   metricName,
                                                   range[1], range[2])]
    /\ UNCHANGED <<updates, updatesFrame>>

AddMetricsToUpdateRejected(updateId, metrics) ==
  /\ ~hasUpdate(updates, updateId)
  /\ updatesLast' = [op |-> "addMetricsToUpdate", ok |-> FALSE,
                     updateId |-> updateId, metrics |-> metrics]
  /\ UNCHANGED <<updates, updatesFrame>>

AddMetricsToUpdateAccepted(updateId, metrics) ==
  /\ hasUpdate(updates, updateId)
  /\ \E i \in 1..Len(updates) :
       /\ updates[i].id = updateId
       /\ Len(updates[i].metrics) + Len(metrics) <= MaxMetrics
       /\ updates' = [updates EXCEPT ![i] = addMetrics(@, metrics)]
  /\ updatesLast' = [op |-> "addMetricsToUpdate", ok |-> TRUE,
                     updateId |-> updateId, metrics |-> metrics]
  /\ UNCHANGED updatesFrame

AddMetricsToUpdate ==
  \/ \E updateId \in 1..MaxUpdates, metrics \in AddedMetrics :
       AddMetricsToUpdateRejected(updateId, metrics)
  \/ \E updateId \in 1..MaxUpdates, metrics \in AddedMetrics :
       AddMetricsToUpdateAccepted(updateId, metrics)

UpdatesNext ==
  \/ CreateUpdate
  \/ ListUpdates
  \/ GetLatestMetrics
  \/ GetMetricHistory
  \/ AddMetricsToUpdate

UpdatesSpec == Init /\ [][UpdatesNext]_vars

----------------------------------------------------------------------------
(* Claims about UpdatesService.                                            *)

UpdatesOf(companyId) ==
  {i \in 1..Len(updates) : updates[i].companyId = companyId}

HasName(update, name) ==
  \E k \in 1..Len(update.metrics) : update.metrics[k].name = name

HasMetric(update, metric) ==
  \E k \in 1..Len(update.metrics) : update.metrics[k] = metric

\* The latest metrics of companyId as the claim describes them: one metric per
\* name found in the company's updates, each from a newest update of the
\* company that has the name.
LatestMetricsOf(result, companyId) ==
  LET mine == UpdatesOf(companyId)
  IN /\ {result[k].name : k \in 1..Len(result)}
          = {name \in MetricNames : \E i \in mine : HasName(updates[i], name)}
     /\ \A k, l \in 1..Len(result) : result[k].name = result[l].name => k = l
     /\ \A k \in 1..Len(result) :
          \E i \in mine :
            /\ HasMetric(updates[i], result[k])
            /\ \A j \in mine : HasName(updates[j], result[k].name)
                                 => updates[j].date <= updates[i].date

\* C21: getLatestMetrics(companyId) returns exactly one metric for each metric
\* name that appears in any update of that company, taken from an update with
\* the greatest update date among the company's updates that contain the
\* name; metrics of other companies never appear.
C21_LatestMetricPerName ==
  \A companyId \in UpdateQueryCompanies :
    LatestMetricsOf(getLatestMetrics(updates, companyId), companyId)

CountIn(ms, metric) == Cardinality({k \in 1..Len(ms) : ms[k] = metric})

InRange(date, startDate, endDate) ==
  /\ startDate # Undefined => date >= startDate
  /\ endDate # Undefined => date <= endDate

\* The metrics named metricName in the updates of companyId dated in the range
MetricsInRange(companyId, metricName, startDate, endDate) ==
  LET named(m) == m.name = metricName
      inScope(u) == /\ u.companyId = companyId
                    /\ InRange(u.date, startDate, endDate)
  IN SelectSeq(flatMetrics(SelectSeq(updates, inScope)), named)

SameMetrics(ms, ns) ==
  /\ Len(ms) = Len(ns)
  /\ \A k \in 1..Len(ms) : CountIn(ms, ms[k]) = CountIn(ns, ms[k])

OldestFirst(ms) ==
  \A k, l \in 1..Len(ms) : k < l => ms[k].date <= ms[l].date

\* C22: getMetricHistory(companyId, metricName, start?, end?) returns all the
\* metrics with that name from the company's updates whose update date lies in
\* the inclusive range, oldest first, and listUpdates returns updates newest
\* first, whatever the insertion order.
C22_HistoryOldestFirstListNewestFirst ==
  \A companyId \in UpdateQueryCompanies, metricName \in MetricNames,
     startDate \in UpdateQueryDates, endDate \in UpdateQueryDates :
    LET history == getMetricHistory(updates, companyId, metricName,
                                    startDate, endDate)
    IN /\ SameMetrics(history, MetricsInRange(companyId, metricName,
                                              startDate, endDate))
       /\ OldestFirst(history)
       /\ NewestFirst(listUpdates(updates, companyId, Absent,
                                  startDate, endDate))
       /\ NewestFirst(listUpdates(updates, Absent, Absent,
                                  startDate, endDate))

AddedMetricsTo == updatesLast.op = "addMetricsToUpdate" /\ updatesLast.ok

\* C23: addMetricsToUpdate(updateId, metrics) only appends.  The update keeps
\* its previous metrics as an unchanged prefix, every added metric carries the
\* update's date and the given name and value, every other update and every
\* other field is unchanged; with an unknown updateId it fails and no update
\* changes.
C23_AddMetricsOnlyAppends ==
  [][ updatesLast'.op = "addMetricsToUpdate" =>
        IF updatesLast'.ok
        THEN LET added == updatesLast'.metrics
             IN /\ Len(updates') = Len(updates)
                /\ \E i \in 1..Len(updates) :
                     /\ updates[i].id = updatesLast'.updateId
                     /\ \A j \in 1..Len(updates) :
                          j # i => updates'[j] = updates[j]
                     /\ [updates'[i] EXCEPT !.metrics = << >>]
                          = [updates[i] EXCEPT !.metrics = << >>]
                     /\ Len(updates'[i].metrics)
                          = Len(updates[i].metrics) + Len(added)
                     /\ SubSeq(updates'[i].metrics, 1, Len(updates[i].metrics))
                          = updates[i].metrics
                     /\ \A k \in 1..Len(added) :
                          updates'[i].metrics[Len(updates[i].metrics) + k]
                            = Metric(added[k].name, added[k].value,
                                     updates[i].date)
        ELSE /\ updates' = updates
             /\ ~hasUpdate(updates, updatesLast'.updateId) ]_vars

\* Metrics were added to an update that already had metrics of another date,
\* while another update is stored.
C23_Witness ==
  /\ AddedMetricsTo
  /\ Len(updates) = 2
  /\ \E i \in 1..Len(updates) :
       /\ updates[i].id = updatesLast.updateId
       /\ Len(updates[i].metrics) = 2
       /\ updates[i].metrics[1].date # updates[i].date
       /\ updates[i].metrics[2].date = updates[i].date

----------------------------------------------------------------------------
(* Mutations of an existing fund row: the CLI command `fund update` and    *)
(* the API routes PUT and DELETE /api/funds/[id].  Both the CLI and the    *)
(* API session resolve the four development e-mails to the mock users.     *)
(* funds maps the id of each stored fund to its row; fundsLast records the *)
(* last request.                                                           *)

FundCallers == DOMAIN mockUsers \cup {NoUser}

FundIds == DOMAIN seedFundRows \cup {"no-such-fund"}

CliStatuses == {"Closed"}

ApiStatuses == {"ACTIVE", "CLOSED", "RAISING", "FULLY_INVESTED"}

\* The status values the PUT body is tried with; "bogus" fails validation.
PutBodies == {"CLOSED", "bogus"}

fundsFrame == <<capitalVars, calculations, navLast, portfolioVars,
                updates, updatesLast, tasks, tasksLast>>

\* Rows that reference the fund; the relations have no onDelete rule, so the
\* database refuses to delete a fund that is still referenced.
referenced(fundId) ==
  \/ fundId = "seed-fund-1"
  \/ limitedPartners(lps, fundId) # {}
  \/ \E c \in 1..Len(calls) : calls[c].fundId = fundId

fundUpdateError(caller, fundId) ==
  IF ~getAuthenticatedUser(caller) THEN "not authenticated"
  ELSE IF fundId \notin DOMAIN funds THEN "fund not found"
  ELSE IF /\ mockUsers[caller].role # "SUPER_ADMIN"
          /\ funds[fundId].ownerId # mockUsers[caller].id
       THEN "permission denied"
  ELSE ""

putError(caller, fundId, status) ==
  IF ~getAuthenticatedUser(caller) THEN "401"
  ELSE IF mockUsers[caller].role \notin {"SUPER_ADMIN", "FUND_MANAGER"}
       THEN "403"
  ELSE IF fundId \notin DOMAIN funds THEN "404"
  ELSE IF status \notin ApiStatuses THEN "400"
  ELSE ""

deleteError(caller, fundId) ==
  IF ~getAuthenticatedUser(caller) THEN "401"
  ELSE IF mockUsers[caller].role # "SUPER_ADMIN" THEN "403"
  ELSE IF fundId \notin DOMAIN funds THEN "404"
  ELSE IF referenced(fundId) THEN "500"
  ELSE ""

FundOutcome(op, err, caller, fundId) ==
  [op |-> op, ok |-> err = "", err |-> err, caller |-> caller,
   fundId |-> fundId]

FundUpdateRejected(caller, fundId) ==
  /\ fundUpdateError(caller, fundId) # ""
  /\ fundsLast' = FundOutcome("fund update", fundUpdateError(caller, fundId),
                              caller, fundId)
  /\ UNCHANGED <<funds, fundsFrame>>

FundUpdateAccepted(caller, fundId, status) ==
  /\ fundUpdateError(caller, fundId) = ""
  /\ funds' = [funds EXCEPT ![fundId].status = status]
  /\ fundsLast' = FundOutcome("fund update", "", caller, fundId)
  /\ UNCHANGED fundsFrame

FundUpdate ==
  \/ \E caller \in FundCallers, fundId \in FundIds :
       FundUpdateRejected(caller, fundId)
  \/ \E caller \in FundCallers, fundId \in FundIds, status \in CliStatuses :
       FundUpdateAccepted(caller, fundId, status)

PutFundRejected(caller, fundId, status) ==
  /\ putError(caller, fundId, status) # ""
  /\ fundsLast' = FundOutcome("PUT", putError(caller, fundId, status),
                              caller, fundId)
  /\ UNCHANGED <<funds, fundsFrame>>

PutFundAccepted(caller, fundId, status) ==
  /\ putError(caller, fundId, status) = ""
  /\ funds' = [funds EXCEPT ![fundId].status = status]
  /\ fundsLast' = FundOutcome("PUT", "", caller, fundId)
  /\ UNCHANGED fundsFrame

PutFund ==
  \/ \E caller \in FundCallers, fundId \in FundIds, status \in PutBodies :
       PutFundRejected(caller, fundId, status)
  \/ \E caller \in FundCallers, fundId \in FundIds, status \in PutBodies :
       PutFundAccepted(caller, fundId, status)

DeleteFundRejected(caller, fundId) ==
  /\ deleteError(caller, fundId) # ""
  /\ fundsLast' = FundOutcome("DELETE", deleteError(caller, fundId),
                              caller, fundId)
  /\ UNCHANGED <<funds, fundsFrame>>

DeleteFundAccepted(caller, fundId) ==
  /\ deleteError(caller, fundId) = ""
  /\ funds' = [f \in DOMAIN funds \ {fundId} |-> funds[f]]
  /\ fundsLast' = FundOutcome("DELETE", "", caller, fundId)
  /\ UNCHANGED fundsFrame

DeleteFund ==
  \/ \E caller \in FundCallers, fundId \in FundIds :
       DeleteFundRejected(caller, fundId)
  \/ \E caller \in FundCallers, fundId \in FundIds :
       DeleteFundAccepted(caller, fundId)

FundNext ==
  \/ FundUpdate
  \/ PutFund
  \/ DeleteFund

FundSpec == Init /\ [][FundNext]_vars

\* The caller is SUPER_ADMIN or the owner of the stored fund
AdminOrOwner(caller, fundId) ==
  /\ caller # NoUser
  /\ \/ mockUsers[caller].role = "SUPER_ADMIN"
     \/ /\ fundId \in DOMAIN funds
        /\ funds[fundId].ownerId = mockUsers[caller].id

\* C24: every successful mutation of an existing fund (or of its LPs, capital
\* calls and responses) through a CLI command or through PUT/DELETE on the
\* fund is performed by a caller who is SUPER_ADMIN or the fund's owner; for
\* every other caller the operation is denied and the state is unchanged.
C24_OnlyAdminOrOwnerMutates ==
  [][ fundsLast'.op # "seed" =>
        /\ funds' # funds
             => (fundsLast'.ok
                 /\ AdminOrOwner(fundsLast'.caller, fundsLast'.fundId))
        /\ ~AdminOrOwner(fundsLast'.caller, fundsLast'.fundId)
             => (~fundsLast'.ok /\ funds' = funds) ]_vars

----------------------------------------------------------------------------
(* Tasks: the CLI commands `task create` and `task update-status` and the  *)
(* MCP route task.create.  A caller is the e-mail of the login.  The four  *)
(* development e-mails resolve to the mock users, whose ids are not ids of *)
(* the users table; any other e-mail resolves to its row of the users      *)
(* table.  Besides the four seeded rows the table holds two accounts with  *)
(* other e-mails: member@example.com with the default role USER, and       *)
(* viewer@example.com, to whom the role READ_ONLY was given.               *)

MaxTasks == 3

mockEmails ==
  [e \in {"admin@valentine.vc", "manager@valentine.vc",
          "analyst@valentine.vc", "readonly@valentine.vc"} |->
     CASE e = "admin@valentine.vc" -> "super-admin"
       [] e = "manager@valentine.vc" -> "fund-manager"
       [] e = "analyst@valentine.vc" -> "analyst"
       [] OTHER -> "readonly"]

\* The users table, by e-mail
dbUsers ==
  [e \in DOMAIN mockEmails \cup {"member@example.com", "viewer@example.com"} |->
     [id |-> "cuid:" \o e,
      role |-> CASE e = "admin@valentine.vc" -> "SUPER_ADMIN"
                 [] e = "manager@valentine.vc" -> "FUND_MANAGER"
                 [] e = "analyst@valentine.vc" -> "ANALYST"
                 [] e = "readonly@valentine.vc" -> "READ_ONLY"
                 [] e = "viewer@example.com" -> "READ_ONLY"
                 [] OTHER -> "USER"]]

userIds == {dbUsers[e].id : e \in DOMAIN dbUsers}

TaskCallers == {"manager@valentine.vc", "readonly@valentine.vc",
                "member@example.com", "viewer@example.com",
                "stranger@example.com", NoUser}

\* getAuthenticatedUser by e-mail: mock users first, then the users table;
\* the result is << >> when there is no login or no such user
authenticatedUser(email) ==
  IF email = NoUser THEN << >>
  ELSE IF email \in DOMAIN mockEmails THEN << mockUsers[mockEmails[email]] >>
  ELSE IF email \in DOMAIN dbUsers THEN << dbUsers[email] >>
  ELSE << >>

AssignTo == {Absent, "viewer@example.com", "nobody@example.com"}

TaskStatuses == {"TODO", "IN_PROGRESS", "DONE", "CANCELED"}

StatusOptions == {"DONE", "bogus"}

tasksFrame == <<capitalVars, calculations, navLast, portfolioVars,
                updates, updatesLast, funds, fundsLast>>

taskCreateError(email, assignTo) ==
  LET user == authenticatedUser(email) IN
  IF user = << >> THEN "not authenticated"
  ELSE IF user[1].role = "READ_ONLY" THEN "permission denied"
  ELSE IF truthy(assignTo) /\ assignTo \notin DOMAIN dbUsers
       THEN "assignee not found"
  ELSE IF user[1].id \notin userIds THEN "foreign key constraint"
  ELSE ""

findTask(ts, taskId) == {i \in 1..Len(ts) : ts[i].id = taskId}

updateStatusError(email, taskId, status) ==
  LET user == authenticatedUser(email) IN
  IF user = << >> THEN "not authenticated"
  ELSE IF status \notin TaskStatuses THEN "invalid status"
  ELSE IF findTask(tasks, taskId) = {} THEN "task not found"
  ELSE LET existingTask == tasks[CHOOSE i \in findTask(tasks, taskId) : TRUE]
       IN IF /\ user[1].role # "SUPER_ADMIN"
             /\ user[1].role # "FUND_MANAGER"
             /\ existingTask.createdById # user[1].id
             /\ existingTask.assignedToId # user[1].id
          THEN "permission denied"
          ELSE ""

TaskOutcome(op, err, email) ==
  [op |-> op, ok |-> err = "", err |-> err, caller |-> email]

taskData(email, assignTo) ==
  [id |-> Len(tasks) + 1,
   status |-> "TODO",
   assignedToId |-> IF truthy(assignTo) THEN dbUsers[assignTo].id ELSE Absent,
   createdById |-> authenticatedUser(email)[1].id]

TaskCreateRejected(op, email, assignTo) ==
  /\ taskCreateError(email, assignTo) # ""
  /\ tasksLast' = TaskOutcome(op, taskCreateError(email, assignTo), email)
  /\ UNCHANGED <<tasks, tasksFrame>>

TaskCreateAccepted(op, email, assignTo) ==
  /\ taskCreateError(email, assignTo) = ""
  /\ Len(tasks) < MaxTasks
  /\ tasks' = Append(tasks, taskData(email, assignTo))
  /\ tasksLast' = TaskOutcome(op, "", email)
  /\ UNCHANGED tasksFrame

TaskCreate ==
  \/ \E email \in TaskCallers, assignTo \in AssignTo :
       TaskCreateRejected("task create", email, assignTo)
  \/ \E email \in TaskCallers, assignTo \in AssignTo :
       TaskCreateAccepted("task create", email, assignTo)

McpTaskCreate ==
  \/ \E email \in TaskCallers, assignTo \in AssignTo :
       TaskCreateRejected("task.create", email, assignTo)
  \/ \E email \in TaskCallers, assignTo \in AssignTo :
       TaskCreateAccepted("task.create", email, assignTo)

TaskUpdateStatusRejected(email, taskId, status) ==
  /\ updateStatusError(email, taskId, status) # ""
  /\ tasksLast' = TaskOutcome("task update-status",
                              updateStatusError(email, taskId, status), email)
  /\ UNCHANGED <<tasks, tasksFrame>>

TaskUpdateStatusAccepted(email, taskId, status) ==
  /\ updateStatusError(email, taskId, status) = ""
  /\ tasks' = [i \in 1..Len(tasks) |->
                 IF tasks[i].id = taskId
                 THEN [tasks[i] EXCEPT !.status = status] ELSE tasks[i]]
  /\ tasksLast' = TaskOutcome("task update-status", "", email)
  /\ UNCHANGED tasksFrame

TaskUpdateStatus ==
  \/ \E email \in TaskCallers, taskId \in 1..(MaxTasks + 1),
        status \in StatusOptions :
       TaskUpdateStatusRejected(email, taskId, status)
  \/ \E email \in TaskCallers, taskId \in 1..(MaxTasks + 1),
        status \in StatusOptions :
       TaskUpdateStatusAccepted(email, taskId, status)

TaskNext ==
  \/ TaskCreate
  \/ McpTaskCreate
  \/ TaskUpdateStatus

TaskSpec == Init /\ [][TaskNext]_vars

ReadOnlyCaller(email) ==
  /\ authenticatedUser(email) # << >>
  /\ authenticatedUser(email)[1].role = "READ_ONLY"

\* C25: a user with role READ_ONLY has view-only access: no command or
\* request issued by a READ_ONLY user changes a stored record.
C25_ReadOnlyChangesNothing ==
  [][ (tasksLast'.op # "seed" /\ ReadOnlyCaller(tasksLast'.caller))
        => (tasks' = tasks /\ ~tasksLast'.ok) ]_vars

----------------------------------------------------------------------------
(* Further claims about PortfolioService and the capital-call commands.    *)

\* C26: company names are unique in PortfolioService: addCompany with the
\* name of a stored company fails and leaves the companies unchanged, so no
\* two stored companies share a name.
C26_CompanyNamesUnique ==
  \A i, j \in 1..Len(companies) :
    companies[i].name = companies[j].name => i = j

\* C27: the percentage is derived only when it is omitted.  Whenever create is
\* given a percentage, 0 included, the stored call's percentage is the given
\* value, and the call is not refused for lack of LPs or of commitments.
C27_SuppliedPercentageStored ==
  /\ (CallCreated /\ last.option # Undefined)
       => calls[last.call].percentage = Percentage(last.option, 1)
  /\ \A caller \in Callers, fundName \in FundNames,
        option \in PercentageOptions \ {Undefined} :
       createError(lps, caller, fundName, option) # "no-commitments"

\* C28: recordPayment replaces rather than accumulates.  After a successful
\* recordPayment the response's amountPaid is the amount of that call (not a
\* sum with what was paid before), the response's status is the one derived
\* from that amount, and the call's status is the one derived from the
\* amounts now stored.
C28_PaymentReplaces ==
  PaymentRecorded =>
    LET r == responses[last.resp]
        c == calls[last.call]
        paid == PaidOver(RowsOfCall(last.call))
    IN /\ r.amountPaid = last.amount
       /\ r.status = IF last.amount * 100 * c.percentage.d
                          >= lps[last.lp].commitment * c.percentage.n
                      THEN "PAID" ELSE "PARTIALLY_PAID"
       /\ c.status = IF paid >= c.amount THEN "FULLY_PAID"
                     ELSE IF paid > 0 THEN "PARTIALLY_PAID"
                     ELSE IF now > c.dueDate THEN "OVERDUE"
                     ELSE "PENDING"

\* A smaller amount was recorded on a seeded response that already had a
\* payment.
C28_Witness ==
  /\ PaymentRecorded
  /\ last.resp \in 1..Len(seedResponses)
  /\ last.amount > 0
  /\ last.amount < seedResponses[last.resp].amountPaid
  /\ responses[last.resp].amountPaid = last.amount

\* C29: in every state reached by lp create, capital-call create and
\* record-payment there is at most one response row for any pair of an LP and
\* a capital call.
C29_OneResponsePerPair ==
  \A l \in 1..Len(lps), c \in 1..Len(calls) :
    Cardinality(RowsOfPair(l, c)) <= 1

\* A call was created for a fund with two LPs, one of them added by lp
\* create, and a payment was recorded on it.
C29_Witness ==
  /\ PaymentRecorded
  /\ last.call > Len(seedCapitalCalls)
  /\ Cardinality(RowsOfCall(last.call)) >= 2
  /\ Cardinality(RowsOfPair(last.lp, last.call)) = 1

SameButStatus(before, after) ==
  [after EXCEPT !.status = before.status] = before

\* C30: a successful recordPayment on call c for LP l changes only l's
\* response for c (amountPaid, datePaid, status) and the status of c; every
\* other response, every other call, every LP and c's amount, percentage and
\* dueDate are unchanged.  A rejected recordPayment changes nothing.
C30_PaymentFrame ==
  [][ /\ last'.op = "capital-call.record-payment" =>
           /\ lps' = lps
           /\ Len(responses') = Len(responses)
           /\ Len(calls') = Len(calls)
           /\ \A r \in 1..Len(responses) :
                IF r = last'.resp
                THEN /\ responses'[r].lpId = responses[r].lpId
                     /\ responses'[r].capitalCallId = responses[r].capitalCallId
                     /\ responses[r].lpId = last'.lp
                     /\ responses[r].capitalCallId = last'.call
                ELSE responses'[r] = responses[r]
           /\ \A c \in 1..Len(calls) :
                IF c = last'.call
                THEN SameButStatus(calls[c], calls'[c])
                ELSE calls'[c] = calls[c]
      /\ last'.op = "rejected" =>
           (lps' = lps /\ calls' = calls /\ responses' = responses) ]_vars

\* A payment was recorded while another call and other responses are stored
\* and the paid call's status differs from the other call's.
C30_Witness ==
  /\ PaymentRecorded
  /\ Len(calls) >= 2
  /\ \E c \in 1..Len(calls) :
       c # last.call /\ calls[c].status # calls[last.call].status
  /\ \E r \in 1..Len(responses) : r # last.resp

====
